---- MODULE Spec2Model ----
(***************************************************************************)
(* A model of the bpaotu query layer (bpaotu/query.py) and of the BIOM     *)
(* export generator (bpaotu/biom.py).                                      *)
(*                                                                         *)
(* Python None and SQL NULL are both written None (0); ontology, sample    *)
(* and OTU ids are positive integers.  A SQLAlchemy query is modelled as   *)
(* the data it is in the code: a FROM clause and the list of criteria      *)
(* added by .filter(); it is executed against a dataset with SQL's         *)
(* three-valued logic.                                                     *)
(*                                                                         *)
(* Specifications:                                                         *)
(*   SpecTax   operations on one TaxonomyFilter and _possibilities         *)
(*   SpecCtx   a ContextualFilter being built from terms, and applied      *)
(*   SpecKey   the cache keys of two OTUQueryParams objects                *)
(*   Spec      processes calling the cached operations, and the importer   *)
(*   SpecBiom  a process exporting BIOM files, and the importer            *)
(*   SpecSess  database sessions and the archive of save_biom_zip_file     *)
(*   SpecMatch the samples matching the parameters of one SampleQuery      *)
(*   SpecChain the fragments of generate_biom_file, pulled one at a time   *)
(*                                                                         *)
(* The fields of every record are written in the order in which the model  *)
(* checker keeps them.                                                     *)
(***************************************************************************)
EXTENDS Integers, Sequences, FiniteSets, TLC

\* ------------------------------------------------------------------------
\* Bounds of the model
\* ------------------------------------------------------------------------
MaxTaxId == 2
MaxTerms == 2
MaxImports == 1
NProcs == 2
MaxCalls == 2

\* ------------------------------------------------------------------------
\* Values
\* ------------------------------------------------------------------------
None == 0

T == "TRUE"
F == "FALSE"
N == "NULL"

\* SQL NOT, AND, OR over three truth values
Not3(a) == IF a = T THEN F ELSE IF a = F THEN T ELSE N

And3(a, b) == IF a = F \/ b = F THEN F ELSE IF a = N \/ b = N THEN N ELSE T

Or3(a, b) == IF a = T \/ b = T THEN T ELSE IF a = N \/ b = N THEN N ELSE F

\* ------------------------------------------------------------------------
\* TaxonomyOptions.hierarchy, and the op_and_val selectors
\* ------------------------------------------------------------------------
hierarchy == << "kingdom_id", "phylum_id", "class_id", "order_id",
                "family_id", "genus_id", "species_id" >>

NLevels == Len(hierarchy)

\* attr[:-3]
drop_id(attr) ==
    CASE attr = "kingdom_id" -> "kingdom"
      [] attr = "phylum_id" -> "phylum"
      [] attr = "class_id" -> "class"
      [] attr = "order_id" -> "order"
      [] attr = "family_id" -> "family"
      [] attr = "genus_id" -> "genus"
      [] attr = "species_id" -> "species"
      [] attr = "amplicon_id" -> "amplicon"
      [] attr = "environment_id" -> "environment"

\* A selector is None or a dict {'operator': op, 'value': v}.
NoSel == [isNone |-> TRUE, operator |-> "", value |-> None]

Sel(op, v) == [isNone |-> FALSE, operator |-> op, value |-> v]

OP_DESCR == [is |-> " is ", isnot |-> " is not "]

\* ------------------------------------------------------------------------
\* Ontology tables (OTUKingdom ... OTUSpecies, OTUAmplicon, Environment):
\* rows (id, value), ids 1..MaxTaxId.  Display values are ordered by Rank.
\* ------------------------------------------------------------------------
ValueNames == << "Bacteria", "Archaea", "Eukaryota", "Fungi" >>

Rank(name) ==
    CASE name = "Archaea" -> 1
      [] name = "Bacteria" -> 2
      [] name = "Eukaryota" -> 3
      [] name = "Fungi" -> 4

OntologyIds == 1..MaxTaxId

\* OntologyInfo.id_to_value: None for None, the value of the one row with
\* that id, and NoResultFound (from .one()) when there is no such row.
id_to_value(_id) ==
    IF _id = None THEN "None"
    ELSE IF _id \in OntologyIds THEN "'" \o ValueNames[_id] \o "'"
    ELSE "<NoResultFound>"

\* ------------------------------------------------------------------------
\* SQL expressions, queries and their execution
\* ------------------------------------------------------------------------
Col(t, a) == [a |-> a, t |-> t]

Eq(col, val) == [col |-> col, val |-> val, k |-> "eq"]

Ne(col, val) == [col |-> col, val |-> val, k |-> "ne"]

EqCol(l, r) == [k |-> "eqcol", l |-> l, r |-> r]

Between(col, lo, hi) == [col |-> col, k |-> "between", lo |-> lo, hi |-> hi]

Contains(col, pat) == [col |-> col, k |-> "like", pat |-> pat]

In(col, vals) == [col |-> col, k |-> "in", vals |-> vals]

InSubquery(col, sub, subcol) == [col |-> col, k |-> "in_subq", sub |-> sub, subcol |-> subcol]

SqlNot(e) == [k |-> "not", arg |-> e]

SqlAnd(args) == [k |-> "and", args |-> args]

SqlOr(args) == [k |-> "or", args |-> args]

\* session.query(...) over the tables of `from`; select names what is selected
Query(select, from) == [select |-> select, from |-> from, where |-> << >>, order_by |-> << >>]

OrderBy(q, col) == [q EXCEPT !.order_by = Append(@, col)]

\* "no query": the None that stands for a subquery that is not built
NoQuery == [select |-> "", from |-> "", where |-> << >>, order_by |-> << >>]

Filter(q, e) == [q EXCEPT !.where = Append(@, e)]

\* NULL of a text column (text values are sequences of characters)
NoneStr == << "<NULL>" >>

\* x LIKE pattern: % matches any run of characters, _ any one character
RECURSIVE Like(_, _)
Like(p, s) ==
    IF p = << >> THEN s = << >>
    ELSE IF Head(p) = "%" THEN Like(Tail(p), s) \/ (s # << >> /\ Like(p, Tail(s)))
    ELSE s # << >> /\ (Head(p) = "_" \/ Head(p) = Head(s)) /\ Like(Tail(p), Tail(s))

\* The rows of a FROM clause: the cross product of its tables
Rows(from, db) ==
    CASE from = "OTU" -> {[OTU |-> o] : o \in db.otus}
      [] from = "SampleContext" -> {[SampleContext |-> s] : s \in db.samples}
      [] from = "SampleOTU,OTU" ->
            {[OTU |-> o, SampleOTU |-> f] : f \in db.facts, o \in db.otus}
      [] from = "SampleOTU,SampleContext" ->
            {[SampleContext |-> s, SampleOTU |-> f] : f \in db.facts, s \in db.samples}
      [] from = "OTU,SampleOTU,SampleContext" ->
            {[OTU |-> o, SampleContext |-> s, SampleOTU |-> f] :
                o \in db.otus, f \in db.facts, s \in db.samples}

RECURSIVE Eval(_, _, _), Exec(_, _)
\* The truth value (T, F or N) of a criterion on a row
Eval(e, row, db) ==
    CASE e.k = "eq" ->
            LET v == row[e.col.t][e.col.a]
            IN  IF v = None THEN N ELSE IF v = e.val THEN T ELSE F
      [] e.k = "ne" ->
            LET v == row[e.col.t][e.col.a]
            IN  IF v = None THEN N ELSE IF v # e.val THEN T ELSE F
      [] e.k = "eqcol" ->
            IF row[e.l.t][e.l.a] = row[e.r.t][e.r.a] THEN T ELSE F
      [] e.k = "between" ->
            LET v == row[e.col.t][e.col.a]
            IN  IF v = None THEN N ELSE IF e.lo <= v /\ v <= e.hi THEN T ELSE F
      [] e.k = "like" ->
            LET v == row[e.col.t][e.col.a]
            IN  IF v = NoneStr THEN N
                ELSE IF Like(<< "%" >> \o e.pat \o << "%" >>, v) THEN T ELSE F
      [] e.k = "in" ->
            LET v == row[e.col.t][e.col.a]
            IN  IF \E i \in 1..Len(e.vals) : e.vals[i] = v THEN T ELSE F
      [] e.k = "in_subq" ->
            LET v == row[e.col.t][e.col.a]
            IN  IF v \in {r[e.subcol.t][e.subcol.a] : r \in Exec(e.sub, db)} THEN T ELSE F
      [] e.k = "not" -> Not3(Eval(e.arg, row, db))
      \* and_() / or_() without clauses is an empty clause list, which renders
      \* as no criterion at all
      [] e.k = "and" ->
            IF \E i \in 1..Len(e.args) : Eval(e.args[i], row, db) = F THEN F
            ELSE IF \E i \in 1..Len(e.args) : Eval(e.args[i], row, db) = N THEN N
            ELSE T
      [] e.k = "or" ->
            IF e.args = << >> THEN T
            ELSE IF \E i \in 1..Len(e.args) : Eval(e.args[i], row, db) = T THEN T
            ELSE IF \E i \in 1..Len(e.args) : Eval(e.args[i], row, db) = N THEN N
            ELSE F

\* q.all(), unordered: the rows on which every criterion is true
Exec(q, db) ==
    {r \in Rows(q.from, db) : \A i \in 1..Len(q.where) : Eval(q.where[i], r, db) = T}

\* ------------------------------------------------------------------------
\* apply_op_and_val_filter and its partial applications
\* ------------------------------------------------------------------------
apply_op_and_val_filter(attr, q, op_and_val) ==
    IF op_and_val.isNone \/ op_and_val.value = None THEN q
    ELSE IF op_and_val.operator = "isnot" THEN Filter(q, Ne(attr, op_and_val.value))
    ELSE Filter(q, Eq(attr, op_and_val.value))

apply_otu_filter(otu_attr, q, op_and_val) ==
    apply_op_and_val_filter(Col("OTU", otu_attr), q, op_and_val)

apply_amplicon_filter(q, op_and_val) == apply_otu_filter("amplicon_id", q, op_and_val)

apply_environment_filter(q, op_and_val) ==
    apply_op_and_val_filter(Col("SampleContext", "environment_id"), q, op_and_val)

describe_op_and_val(attr, q) ==
    IF q.isNone THEN "<None>"
    ELSE IF q.operator \notin DOMAIN OP_DESCR THEN "<KeyError>"
    ELSE IF id_to_value(q.value) = "<NoResultFound>" THEN "<NoResultFound>"
    ELSE drop_id(attr) \o OP_DESCR[q.operator] \o id_to_value(q.value)

\* ------------------------------------------------------------------------
\* Small helpers over sets and sequences
\* ------------------------------------------------------------------------
Min(a, b) == IF a <= b THEN a ELSE b

\* every ordering of a finite set, as sequences without repetition
Orderings(S) ==
    {s \in [1..Cardinality(S) -> S] : \A i, j \in 1..Cardinality(S) : i # j => s[i] # s[j]}

\* ------------------------------------------------------------------------
\* TaxonomyFilter
\* ------------------------------------------------------------------------
TaxonomyFilter(amplicon_filter, state_vector) ==
    [amplicon_filter |-> amplicon_filter, state_vector |-> state_vector]

\* for ... in zip(TaxonomyOptions.hierarchy, state): q = apply_otu_filter(...)
RECURSIVE apply_state(_, _, _)
apply_state(state, q, n) ==
    IF n = 0 THEN q
    ELSE apply_otu_filter(hierarchy[n], apply_state(state, q, n - 1), state[n])

TaxonomyFilter_apply(tf, q) ==
    apply_state(tf.state_vector,
                apply_amplicon_filter(q, tf.amplicon_filter),
                Min(NLevels, Len(tf.state_vector)))

TaxonomyFilter_is_empty(tf) ==
    tf.amplicon_filter.isNone /\ tf.state_vector[1].isNone

RECURSIVE taxonomy_descriptions(_, _)
taxonomy_descriptions(state, n) ==
    IF n = 0 THEN << >>
    ELSE LET descr == describe_op_and_val(hierarchy[n], state[n])
         IN  IF descr = "<None>" THEN taxonomy_descriptions(state, n - 1)
             ELSE Append(taxonomy_descriptions(state, n - 1), descr)

\* (amplicon_description, taxonomy_descriptions), or the exception raised
TaxonomyFilter_describe(tf) ==
    LET amplicon_description == describe_op_and_val("amplicon_id", tf.amplicon_filter)
        descrs == taxonomy_descriptions(tf.state_vector, Min(NLevels, Len(tf.state_vector)))
        all == << amplicon_description >> \o descrs
        raised == {i \in 1..Len(all) : all[i] \in {"<KeyError>", "<NoResultFound>"}}
    IN  IF raised # {}
        THEN [raised |-> all[CHOOSE i \in raised : \A j \in raised : i <= j],
              amplicon |-> "<None>", taxonomy |-> << >>]
        ELSE [raised |-> "", amplicon |-> amplicon_description, taxonomy |-> descrs]

\* ------------------------------------------------------------------------
\* TaxonomyOptions._possibilities
\* ------------------------------------------------------------------------
\* determine_target: the index (1..7) of the first invalid level, 0 for
\* (None, None, None).  idx is the level the loop is at, q the query built
\* up so far.
\* the walk without the q.count() > 0 check: a selected level is always valid
RECURSIVE determine_target_from_uncounted(_, _, _, _)
determine_target_from_uncounted(state, db, q, idx) ==
    IF idx > Min(NLevels, Len(state)) THEN 0
    ELSE IF state[idx].isNone \/ state[idx].value = None THEN idx
    ELSE determine_target_from_uncounted(state, db, q, idx + 1)

RECURSIVE determine_target_from(_, _, _, _)
determine_target_from(state, db, q, idx) ==
    IF idx > Min(NLevels, Len(state)) THEN 0
    ELSE LET taxonomy == state[idx]
         IN  IF taxonomy.isNone \/ taxonomy.value = None THEN idx
             ELSE LET q2 == apply_otu_filter(hierarchy[idx], q, taxonomy)
                  IN  IF Exec(q2, db) # {}
                      THEN determine_target_from(state, db, q2, idx + 1)
                      ELSE idx

determine_target(taxonomy_filter, db) ==
    determine_target_from(taxonomy_filter.state_vector, db,
                          apply_amplicon_filter(Query("OTU.kingdom_id", "OTU"), taxonomy_filter.amplicon_filter),
                          1)

\* the levels after the target only: hierarchy[target_idx + 1:]
clear_after(target_idx) ==
    [i \in 1..(NLevels - target_idx) |-> drop_id(hierarchy[target_idx + i])]

\* [drop_id(attr) for attr, _ in TaxonomyOptions.hierarchy[target_idx:]]
clear_from(target_idx) ==
    LET first == IF target_idx = 0 THEN 1 ELSE target_idx
    IN  [i \in 1..(NLevels - first + 1) |-> drop_id(hierarchy[first + i - 1])]

\* a set of (id, value) pairs as the list ordered by value
RECURSIVE order_by_value(_)
order_by_value(pairs) ==
    IF pairs = {} THEN << >>
    ELSE LET least == CHOOSE p \in pairs : \A r \in pairs : Rank(p[2]) <= Rank(r[2])
         IN  << least >> \o order_by_value(pairs \ {least})

\* state[:target_idx] + [None] * (len(hierarchy) - target_idx)
cleared_state(state, target_idx) ==
    [i \in 1..NLevels |-> IF i < target_idx THEN state[i] ELSE NoSel]

\* The lists `possibilities` may hold: the kingdom table in any order on the
\* hard-coded path, else the grouped (attr, value) pairs ordered by value.
possibilities_of(taxonomy_filter, db, target_idx) ==
    IF taxonomy_filter.amplicon_filter.isNone /\ target_idx = 1
    THEN Orderings({<< i, ValueNames[i] >> : i \in OntologyIds})
    ELSE LET state == cleared_state(taxonomy_filter.state_vector, target_idx)
             q == apply_state(state,
                              apply_amplicon_filter(Query("OTU." \o hierarchy[target_idx] \o ",value", "OTU"),
                                                    taxonomy_filter.amplicon_filter),
                              NLevels)
             ids == {r.OTU[hierarchy[target_idx]] : r \in Exec(q, db)} \cap OntologyIds
         IN  {order_by_value({<< i, ValueNames[i] >> : i \in ids})}

NoOptions == [complete |-> TRUE, target |-> "", possibilities |-> << >>, clear |-> << >>]

\* every result _possibilities may return ({} is NoOptions)
_possibilities(taxonomy_filter, db) ==
    LET target_idx == determine_target(taxonomy_filter, db)
    IN  IF target_idx = 0 THEN {NoOptions}
        ELSE {[complete |-> FALSE,
               target |-> drop_id(hierarchy[target_idx]),
               possibilities |-> p,
               clear |-> clear_from(target_idx)] :
                  p \in possibilities_of(taxonomy_filter, db, target_idx)}

\* ------------------------------------------------------------------------
\* ContextualFilterTerm and its subclasses.  A term is built from Python
\* values, each given with its type; a constructor whose assertion fails
\* (or whose field is no attribute of SampleContext) yields no term.
\* ------------------------------------------------------------------------
SampleContextFields == {"id", "environment_id", "ph", "depth", "date_sampled", "vegetation_type_id"}

AssertionError == [kind |-> "AssertionError"]

AttributeError == [kind |-> "AttributeError"]

PyVal(type, v) == [v |-> v, type |-> type]

ContextualFilterTermFloat(field_name, operator, val_from, val_to) ==
    IF field_name \notin SampleContextFields THEN AttributeError
    ELSE IF val_from.type # "float" \/ val_to.type # "float" THEN AssertionError
    ELSE [operator |-> operator, kind |-> "TermFloat", field_name |-> field_name,
          val_from |-> val_from.v, val_to |-> val_to.v]

ContextualFilterTermDate(field_name, operator, val_from, val_to) ==
    IF field_name \notin SampleContextFields THEN AttributeError
    ELSE IF val_from.type # "date" \/ val_to.type # "date" THEN AssertionError
    ELSE [operator |-> operator, kind |-> "TermDate", field_name |-> field_name,
          val_from |-> val_from.v, val_to |-> val_to.v]

ContextualFilterTermString(field_name, operator, val_contains) ==
    IF field_name \notin SampleContextFields THEN AttributeError
    ELSE IF val_contains.type # "str" THEN AssertionError
    ELSE [operator |-> operator, kind |-> "TermString", field_name |-> field_name,
          val_contains |-> val_contains.v]

ContextualFilterTermOntology(field_name, operator, val_is) ==
    IF field_name \notin SampleContextFields THEN AttributeError
    ELSE IF val_is.type # "int" THEN AssertionError
    ELSE [operator |-> operator, kind |-> "TermOntology", field_name |-> field_name,
          val_is |-> val_is.v]

\* val_is_in.v is a list of typed values
ContextualFilterTermSampleID(field_name, operator, val_is_in) ==
    IF field_name \notin SampleContextFields THEN AttributeError
    ELSE IF val_is_in.type # "list" THEN AssertionError
    ELSE IF \E i \in 1..Len(val_is_in.v) : val_is_in.v[i].type # "int" THEN AssertionError
    ELSE [operator |-> operator, kind |-> "TermSampleID", field_name |-> field_name,
          val_is_in |-> [i \in 1..Len(val_is_in.v) |-> val_is_in.v[i].v]]

complement(term) == term.operator = "complement"

get_conditions(term) ==
    LET field == Col("SampleContext", term.field_name)
    IN  CASE term.kind \in {"TermFloat", "TermDate"} ->
                << Between(field, term.val_from, term.val_to) >>
          [] term.kind = "TermString" -> << Contains(field, term.val_contains) >>
          [] term.kind = "TermOntology" -> << Eq(field, term.val_is) >>
          [] term.kind = "TermSampleID" -> << In(field, term.val_is_in) >>

conditions(term) ==
    IF complement(term)
    THEN [i \in 1..Len(get_conditions(term)) |-> SqlNot(get_conditions(term)[i])]
    ELSE get_conditions(term)

\* ------------------------------------------------------------------------
\* ContextualFilter
\* ------------------------------------------------------------------------
ContextualFilter(mode, environment_filter) ==
    [mode |-> mode, environment_filter |-> environment_filter, terms |-> << >>]

add_term(cf, term) == [cf EXCEPT !.terms = Append(@, term)]

mode_func(mode, args) == IF mode = "or" THEN SqlOr(args) ELSE SqlAnd(args)

\* chain(*(t.conditions for t in terms))
RECURSIVE chain_conditions(_)
chain_conditions(terms) ==
    IF terms = << >> THEN << >>
    ELSE conditions(Head(terms)) \o chain_conditions(Tail(terms))

ContextualFilter_is_empty(cf) == Len(cf.terms) = 0 /\ cf.environment_filter.isNone

\* the environment criterion put inside the mode's combination
ContextualFilter_apply_env_in_mode(cf, q) ==
    Filter(q, mode_func(cf.mode,
                        apply_environment_filter(NoQuery, cf.environment_filter).where
                            \o chain_conditions(cf.terms)))

ContextualFilter_apply(cf, q) ==
    Filter(apply_environment_filter(q, cf.environment_filter),
           mode_func(cf.mode, chain_conditions(cf.terms)))

\* ------------------------------------------------------------------------
\* __repr__ of the filter objects, and make_cache_key
\* ------------------------------------------------------------------------
Digits == << "0", "1", "2", "3", "4", "5", "6", "7", "8", "9" >>

\* str(n) of a non-negative int
RECURSIVE IntStr(_)
IntStr(n) == IF n < 10 THEN Digits[n + 1] ELSE IntStr(n \div 10) \o Digits[(n % 10) + 1]

\* str(x) of a float with an integral value
FloatStr(x) == IntStr(x) \o ".0"

\* str(d) of a datetime.date, d the day of January 2018
DateStr(d) == "2018-01-" \o (IF d < 10 THEN "0" ELSE "") \o IntStr(d)

\* the text of a sequence of characters
RECURSIVE Text(_)
Text(chars) == IF chars = << >> THEN "" ELSE Head(chars) \o Text(Tail(chars))

\* sep.join(strings)
RECURSIVE Join(_, _)
Join(strings, sep) ==
    IF strings = << >> THEN ""
    ELSE IF Len(strings) = 1 THEN strings[1]
    ELSE strings[1] \o sep \o Join(Tail(strings), sep)

\* repr of None or of {'operator': op, 'value': v}
repr_op_and_val(sel) ==
    IF sel.isNone THEN "None"
    ELSE "{'operator': '" \o sel.operator \o "', 'value': "
            \o (IF sel.value = None THEN "None" ELSE IntStr(sel.value)) \o "}"

repr_term(term) ==
    CASE term.kind = "TermFloat" ->
            "<TermFloat(" \o term.field_name \o "," \o term.operator \o ","
                \o FloatStr(term.val_from) \o "," \o FloatStr(term.val_to) \o ")>"
      [] term.kind = "TermDate" ->
            "<TermDate(" \o term.field_name \o "," \o term.operator \o ","
                \o DateStr(term.val_from) \o "," \o DateStr(term.val_to) \o ")>"
      [] term.kind = "TermString" ->
            "<TermString(" \o term.field_name \o "," \o term.operator \o ","
                \o Text(term.val_contains) \o ")>"
      [] term.kind = "TermOntology" ->
            "<TermOntology(" \o term.field_name \o "," \o term.operator \o ","
                \o IntStr(term.val_is) \o ")>"
      [] term.kind = "TermSampleID" ->
            "<TermSampleID(" \o term.field_name \o "," \o term.operator \o ",["
                \o Join([i \in 1..Len(term.val_is_in) |-> IntStr(term.val_is_in[i])], ", ")
                \o "])>"

repr_ContextualFilter(cf) ==
    "<ContextualFilter(" \o cf.mode \o ",env[" \o repr_op_and_val(cf.environment_filter)
        \o "],[" \o Join([i \in 1..Len(cf.terms) |-> repr_term(cf.terms[i])], ",") \o "]>"

repr_TaxonomyFilter(tf) ==
    "<TaxonomyFilter(" \o repr_op_and_val(tf.amplicon_filter) \o ",state_vec[["
        \o Join([i \in 1..Len(tf.state_vector) |-> repr_op_and_val(tf.state_vector[i])], ", ")
        \o "]])>"

OTUQueryParams(contextual_filter, taxonomy_filter) ==
    [taxonomy_filter |-> taxonomy_filter, contextual_filter |-> contextual_filter]

repr_OTUQueryParams(params) ==
    "OTUQueryParams<" \o repr_ContextualFilter(params.contextual_filter) \o ","
        \o repr_TaxonomyFilter(params.taxonomy_filter) \o ">"

\* repr of a str
repr_str(s) == "'" \o s \o "'"

\* The text that make_cache_key hashes, kept as the list of the parts that it
\* joins with ':': the import's UUID, then repr(t) of every argument.  The
\* digest of two texts is equal when the texts are.
make_cache_key(uuid, reprs) == << uuid >> \o reprs

\* OTUQueryParams.state_key
state_key(uuid, params) == make_cache_key(uuid, << repr_str(repr_OTUQueryParams(params)) >>)

\* ------------------------------------------------------------------------
\* SampleQuery: the queries it assembles from params (its taxonomy and
\* contextual filter)
\* ------------------------------------------------------------------------
_build_taxonomy_subquery(params) ==
    IF TaxonomyFilter_is_empty(params.taxonomy_filter) THEN NoQuery
    ELSE TaxonomyFilter_apply(
            params.taxonomy_filter,
            Filter(Query("SampleOTU.sample_id", "SampleOTU,OTU"),
                   EqCol(Col("OTU", "id"), Col("SampleOTU", "otu_id"))))

_build_contextual_subquery(params) ==
    IF ContextualFilter_is_empty(params.contextual_filter) THEN NoQuery
    ELSE ContextualFilter_apply(
            params.contextual_filter,
            Filter(Query("SampleOTU.otu_id", "SampleOTU,SampleContext"),
                   EqCol(Col("SampleContext", "id"), Col("SampleOTU", "sample_id"))))

_assemble_sample_query(params, sample_query, taxonomy_subquery) ==
    ContextualFilter_apply(
        params.contextual_filter,
        IF taxonomy_subquery # NoQuery
        THEN Filter(sample_query,
                    InSubquery(Col("SampleContext", "id"), taxonomy_subquery,
                               Col("SampleOTU", "sample_id")))
        ELSE sample_query)

with_kingdom(q, kingdom_id) ==
    IF kingdom_id # None THEN Filter(q, Eq(Col("OTU", "kingdom_id"), kingdom_id)) ELSE q

_assemble_otu_query(params, otu_query, contextual_subquery, kingdom_id) ==
    with_kingdom(
        TaxonomyFilter_apply(
            params.taxonomy_filter,
            IF contextual_subquery # NoQuery
            THEN Filter(otu_query,
                        InSubquery(Col("OTU", "id"), contextual_subquery,
                                   Col("SampleOTU", "otu_id")))
            ELSE otu_query),
        kingdom_id)

\* the query of matching_samples, before _q_all_cached
matching_samples_query(params) ==
    OrderBy(_assemble_sample_query(params, Query("SampleContext", "SampleContext"),
                                   _build_taxonomy_subquery(params)),
            Col("SampleContext", "id"))

\* the query of matching_sample_headers(None, [{'col_idx': 0}])
matching_sample_headers_query(params) ==
    OrderBy(_assemble_sample_query(params,
                                   Query("SampleContext.id,SampleContext.environment_id",
                                         "SampleContext"),
                                   _build_taxonomy_subquery(params)),
            Col("SampleContext", "id"))

matching_otus(params, kingdom_id) ==
    OrderBy(_assemble_otu_query(params, Query("OTU", "OTU"),
                                _build_contextual_subquery(params), kingdom_id),
            Col("OTU", "id"))

matching_sample_otus(select, params, kingdom_id) ==
    with_kingdom(
        ContextualFilter_apply(
            params.contextual_filter,
            TaxonomyFilter_apply(
                params.taxonomy_filter,
                Filter(Filter(Query(select, "OTU,SampleOTU,SampleContext"),
                              EqCol(Col("OTU", "id"), Col("SampleOTU", "otu_id"))),
                       EqCol(Col("SampleContext", "id"), Col("SampleOTU", "sample_id"))))),
        kingdom_id)

\* the query of has_matching_sample_otus: SELECT EXISTS (matching_sample_otus)
has_matching_sample_otus_query(params, kingdom_id) ==
    [matching_sample_otus("SampleOTU.sample_id,SampleOTU.otu_id,SampleOTU.count",
                          params, kingdom_id)
        EXCEPT !.select = "EXISTS"]

\* ids in ascending order
RECURSIVE Ascending(_)
Ascending(ids) ==
    IF ids = {} THEN << >>
    ELSE LET least == CHOOSE i \in ids : \A j \in ids : i <= j
         IN  << least >> \o Ascending(ids \ {least})

\* A Python value held in the cache or returned by a cached operation
PyNone == [v |-> << >>, type |-> "None"]

PyList(v) == [v |-> v, type |-> "list"]

PyBool(v) == [v |-> v, type |-> "bool"]

\* `not result`
Falsy(result) ==
    \/ result.type = "None"
    \/ result.type = "list" /\ result.v = << >>
    \/ result.type = "bool" /\ ~result.v

\* q.all() of the queries above (each is ordered by id), as the list of the
\* rows' ids; the one row of the EXISTS query
all(q, db) ==
    IF q.select = "EXISTS" THEN PyList(<< << Exec(q, db) # {} >> >>)
    ELSE IF q.from = "OTU" THEN PyList(Ascending({r.OTU.id : r \in Exec(q, db)}))
    ELSE PyList(Ascending({r.SampleContext.id : r \in Exec(q, db)}))

\* to_boolean of has_matching_sample_otus
to_boolean(result) == PyBool(result.v[1][1])

\* mutate_result of a topic (None but for has_matching_sample_otus)
mutate_result(topic, result) ==
    IF topic = "has_matching_sample_otus" THEN to_boolean(result) ELSE result

\* the query _q_all_cached is called with, per topic
topic_query(topic, params, kingdom_id) ==
    CASE topic = "matching_samples" -> matching_samples_query(params)
      [] topic = "matching_sample_headers" -> matching_sample_headers_query(params)
      [] topic = "has_matching_sample_otus" -> has_matching_sample_otus_query(params, kingdom_id)

\* the topic argument of _q_all_cached ('has_matching_sample_otus:%s' % kingdom_id)
topic_name(topic, kingdom_id) ==
    IF topic = "has_matching_sample_otus"
    THEN topic \o ":" \o (IF kingdom_id = None THEN "None" ELSE IntStr(kingdom_id))
    ELSE topic

\* ------------------------------------------------------------------------
\* State
\* ------------------------------------------------------------------------
VARIABLES
    arg,        \* the filter object an operation is called on
    data,       \* the dataset it is evaluated against
    called,     \* the operation called last
    result,     \* what it returned
    cache,      \* caches['search_results']: key -> stored value
    memo,       \* __METADATA_UUID of every process (None until first used)
    pc,         \* where every process is in its call of a cached operation
    call        \* the call every process is in, or has made last

cache_vars == << cache, memo, pc, call >>

vars == << arg, data, called, result, cache, memo, pc, call >>

Procs == 1..NProcs

NoCall == [n |-> 0, topic |-> ""]

\* no process has used the cache
CacheUnused ==
    /\ cache = << >>
    /\ memo = [p \in Procs |-> None]
    /\ pc = [p \in Procs |-> "idle"]
    /\ call = [p \in Procs |-> NoCall]

\* ------------------------------------------------------------------------
\* Datasets
\* ------------------------------------------------------------------------
OTU(id, amplicon_id, lineage) ==
    [kingdom_id |-> lineage[1], id |-> id,
     amplicon_id |-> amplicon_id, phylum_id |-> lineage[2], class_id |-> lineage[3],
     order_id |-> lineage[4], family_id |-> lineage[5], genus_id |-> lineage[6],
     species_id |-> lineage[7]]

\* The lineages OTUs have: one wholly classified as v for each ontology id v,
\* and one that leaves the first at the class level.
LineageList ==
    [v \in 1..MaxTaxId |-> [i \in 1..NLevels |-> v]]
        \o << [i \in 1..NLevels |-> IF i <= 2 THEN 1 ELSE MaxTaxId] >>

Lineages == {LineageList[i] : i \in 1..Len(LineageList)}

\* the OTU table: an OTU of amplicon 1 for every lineage, and one of the
\* first lineage that is unclassified below the class level
OtuPool ==
    {OTU(i, 1, LineageList[i]) : i \in 1..Len(LineageList)}
        \cup {OTU(Len(LineageList) + 1, 1, [i \in 1..NLevels |-> IF i <= 3 THEN 1 ELSE None])}

Dataset(otus, samples, facts) == [otus |-> otus, samples |-> samples, facts |-> facts]

TaxDatasets == {Dataset(OtuPool, {}, {})}

\* ------------------------------------------------------------------------
\* Taxonomy filters given as input: any amplicon selector, and any vector of
\* seven selectors, each None, {operator, None} or {operator, value}; the
\* values of one vector are the ids of one lineage.
\* ------------------------------------------------------------------------
Selectors ==
    {NoSel, Sel("is", None)} \cup {Sel(op, v) : op \in {"is", "isnot"}, v \in OntologyIds}

SelectorOf(kind, v) ==
    CASE kind = "none" -> NoSel
      [] kind = "novalue" -> Sel("is", None)
      [] OTHER -> Sel(kind, v)

StateVectors ==
    {[i \in 1..NLevels |-> SelectorOf(p[i], l[i])] :
        p \in [1..NLevels -> {"none", "novalue", "is", "isnot"}], l \in Lineages}

InitTax ==
    /\ \E a \in Selectors, sv \in StateVectors : arg = TaxonomyFilter(a, sv)
    /\ data \in TaxDatasets
    /\ called = "init"
    /\ result = << >>
    /\ CacheUnused

Describe ==
    /\ called' = "describe"
    /\ result' = [describe |-> TaxonomyFilter_describe(arg),
                  is_empty |-> TaxonomyFilter_is_empty(arg)]
    /\ UNCHANGED << arg, data >>
    /\ UNCHANGED cache_vars

Possibilities ==
    /\ called' = "_possibilities"
    /\ result' \in _possibilities(arg, data)
    /\ UNCHANGED << arg, data >>
    /\ UNCHANGED cache_vars

NextTax == Describe \/ Possibilities

SpecTax == InitTax /\ [][NextTax]_vars

\* ------------------------------------------------------------------------
\* Contextual filters: the sample table they are applied to, and the
\* operations on a ContextualFilter object
\* ------------------------------------------------------------------------
Sample(id, environment_id, ph, depth, date_sampled, vegetation_type_id) ==
    [id |-> id, environment_id |-> environment_id, ph |-> ph, depth |-> depth,
     date_sampled |-> date_sampled, vegetation_type_id |-> vegetation_type_id]

EnvironmentValues == << None, 1, 2 >>

PhValues == << None, 4, 6 >>

DepthValues == << NoneStr, << "1", "0", "c", "m" >>, << "5", "m" >> >>

DateValues == << None, 10, 20 >>

\* every combination of environment, pH and depth (with and without a
\* value), under varying dates and vegetation types
CtxSamples ==
    {Sample(e * 9 + p * 3 + d + 1,
            EnvironmentValues[e + 1], PhValues[p + 1], DepthValues[d + 1],
            DateValues[((e + p) % 3) + 1], EnvironmentValues[((p + d) % 3) + 1]) :
        e \in 0..2, p \in 0..2, d \in 0..2}

TermOperators == {"is", "complement", "bogus"}

EnvironmentSelectors ==
    {NoSel, Sel("is", None)} \cup {Sel(op, 1) : op \in {"is", "isnot", "bogus"}}

FloatInputs == << PyVal("float", 5), PyVal("int", 5) >>

DateInputs == << PyVal("date", 15), PyVal("datetime", 15) >>

StringInputs ==
    << PyVal("str", << "1", "0", "c", "m" >>), PyVal("str", << "_", "m" >>), PyVal("int", 10) >>

OntologyInputs == << PyVal("int", 1), PyVal("str", << "1" >>) >>

SampleIDInputs ==
    << PyVal("list", << PyVal("int", 1), PyVal("int", 2) >>),
       PyVal("list", << PyVal("int", 1), PyVal("str", << "2" >>) >>),
       PyVal("set", << PyVal("int", 1), PyVal("int", 2) >>) >>

Errors == {"AssertionError", "AttributeError"}

InitCtx ==
    /\ \E mode \in {"and", "or"}, env \in EnvironmentSelectors :
            arg = ContextualFilter(mode, env)
    /\ data = Dataset({}, CtxSamples, {})
    /\ called = "init"
    /\ result = << >>
    /\ CacheUnused

\* term = Constructor(...); on success contextual_filter.add_term(term)
AddTerm(name, term) ==
    /\ Len(arg.terms) < MaxTerms
    /\ called' = name
    /\ IF term.kind \in Errors
       THEN arg' = arg /\ result' = term.kind
       ELSE arg' = add_term(arg, term) /\ result' = "added"
    /\ UNCHANGED data
    /\ UNCHANGED cache_vars

NewTermFloat ==
    \E op \in TermOperators, i \in 1..Len(FloatInputs) :
        AddTerm("TermFloat",
                ContextualFilterTermFloat("ph", op, FloatInputs[i], PyVal("float", 7)))

NewTermDate ==
    \E op \in TermOperators, i \in 1..Len(DateInputs) :
        AddTerm("TermDate",
                ContextualFilterTermDate("date_sampled", op, DateInputs[i], PyVal("date", 25)))

NewTermString ==
    \E op \in TermOperators, i \in 1..Len(StringInputs) :
        AddTerm("TermString", ContextualFilterTermString("depth", op, StringInputs[i]))

NewTermOntology ==
    \E op \in TermOperators, i \in 1..Len(OntologyInputs) :
        AddTerm("TermOntology",
                ContextualFilterTermOntology("vegetation_type_id", op, OntologyInputs[i]))

NewTermSampleID ==
    \E op \in TermOperators, i \in 1..Len(SampleIDInputs) :
        AddTerm("TermSampleID", ContextualFilterTermSampleID("id", op, SampleIDInputs[i]))

\* the ids of the samples of query(SampleContext) that contextual_filter.apply keeps
Apply ==
    /\ called' = "apply"
    /\ result' = {r.SampleContext.id :
                    r \in Exec(ContextualFilter_apply(arg, Query("SampleContext", "SampleContext")), data)}
    /\ UNCHANGED << arg, data >>
    /\ UNCHANGED cache_vars

NextCtx ==
    \/ NewTermFloat
    \/ NewTermDate
    \/ NewTermString
    \/ NewTermOntology
    \/ NewTermSampleID
    \/ Apply

SpecCtx == InitCtx /\ [][NextCtx]_vars

\* ------------------------------------------------------------------------
\* Properties of the contextual filter (SpecCtx)
\* ------------------------------------------------------------------------
AllSampleIds == {s.id : s \in data.samples}

Matched(cf) ==
    {r.SampleContext.id : r \in Exec(ContextualFilter_apply(cf, Query("SampleContext", "SampleContext")), data)}

Twin(term) == [term EXCEPT !.operator = IF @ = "complement" THEN "is" ELSE "complement"]

\* C5: the samples matched by a term with operator complement are exactly the
\* samples (those without a value of the field included) that the same term
\* with a non-complement operator does not match.
C5_ComplementIsSetComplement ==
    (called = "apply" /\ Len(arg.terms) = 1 /\ arg.environment_filter.isNone)
        => result = AllSampleIds \ Matched([arg EXCEPT !.terms = << Twin(arg.terms[1]) >>])

Selected(sel) == ~sel.isNone /\ sel.value # None

SelectorHolds(sel, v) ==
    IF sel.operator = "isnot" THEN v # None /\ v # sel.value ELSE v = sel.value

\* a sample satisfies a term when each of the term's conditions is true of it
TermSatisfied(term, s) ==
    \A i \in 1..Len(conditions(term)) :
        Eval(conditions(term)[i], [SampleContext |-> s], data) = T

EnvironmentSatisfied(cf, s) ==
    Selected(cf.environment_filter)
        => SelectorHolds(cf.environment_filter, s.environment_id)

KnownSelector(sel) == sel.isNone \/ sel.operator \in DOMAIN OP_DESCR

\* C6 as stated: apply keeps exactly the samples that satisfy the environment
\* predicate and the mode's reduction over the terms: some term in mode or
\* (none when there is no term), every term in mode and.
C6_ModeReduction ==
    (called = "apply" /\ KnownSelector(arg.environment_filter))
        => result = {s.id : s \in
                        {x \in data.samples :
                            /\ EnvironmentSatisfied(arg, x)
                            /\ IF arg.mode = "or"
                               THEN \E i \in 1..Len(arg.terms) : TermSatisfied(arg.terms[i], x)
                               ELSE \A i \in 1..Len(arg.terms) : TermSatisfied(arg.terms[i], x)}}

\* C6 amended: as C6, except that a filter without terms applies no term
\* predicate in either mode: every sample satisfying the environment
\* predicate is kept.
C6_ModeReductionOverTerms ==
    (called = "apply" /\ KnownSelector(arg.environment_filter))
        => result = {s.id : s \in
                        {x \in data.samples :
                            /\ EnvironmentSatisfied(arg, x)
                            /\ \/ arg.terms = << >>
                               \/ /\ arg.mode = "or"
                                  /\ \E i \in 1..Len(arg.terms) : TermSatisfied(arg.terms[i], x)
                               \/ /\ arg.mode = "and"
                                  /\ \A i \in 1..Len(arg.terms) : TermSatisfied(arg.terms[i], x)}}

\* a filter in mode or over a pH range and a depth substring, under an
\* environment selector, has been applied and kept some samples, not all
C6_Witness ==
    /\ called = "apply"
    /\ arg.mode = "or"
    /\ Selected(arg.environment_filter) /\ arg.environment_filter.operator = "is"
    /\ Len(arg.terms) = 2
    /\ arg.terms[1].kind = "TermFloat" /\ arg.terms[2].kind = "TermString"
    /\ result # {} /\ result # AllSampleIds

\* C8: no query is built from a malformed filter: whenever apply has built
\* its query, the operator of the environment selector is one of the known
\* operators (the keys of OP_DESCR).  (Terms of a wrongly typed value are
\* never added: their constructors raise.)
C8_MalformedRejectedBeforeApply ==
    called = "apply" => KnownSelector(arg.environment_filter)

\* ------------------------------------------------------------------------
\* Properties of the taxonomy filter and the option resolver (SpecTax)
\* ------------------------------------------------------------------------
\* C9: describe() is (None, []) if and only if is_empty() is true.
C9_DescribeNoneIffEmpty ==
    called = "describe"
        => ((/\ result.describe.raised = ""
             /\ result.describe.amplicon = "<None>"
             /\ result.describe.taxonomy = << >>) <=> result.is_empty)

\* the OTUs left by the amplicon selector and the selectors of levels 1..k
RowsLeft(tf, db, k) ==
    {o \in db.otus :
        /\ Selected(tf.amplicon_filter) => SelectorHolds(tf.amplicon_filter, o.amplicon_id)
        /\ \A j \in 1..k :
              Selected(tf.state_vector[j])
                  => SelectorHolds(tf.state_vector[j], o[hierarchy[j]])}

InvalidLevels(tf, db) ==
    {k \in 1..NLevels : ~Selected(tf.state_vector[k]) \/ RowsLeft(tf, db, k) = {}}

\* C10: the target is the first level whose selector is absent, has no value
\* or leaves no OTU row once combined with the amplicon selector and the
\* earlier levels; the result is {} iff all seven levels are selected and
\* their conjunction matches an OTU.
C10_TargetIsFirstInvalidLevel ==
    called = "_possibilities"
        => /\ result.complete <=> InvalidLevels(arg, data) = {}
           /\ ~result.complete =>
                result.target =
                    drop_id(hierarchy[CHOOSE k \in InvalidLevels(arg, data) :
                                        \A j \in InvalidLevels(arg, data) : k <= j])
           /\ result.complete <=>
                /\ \A k \in 1..NLevels : Selected(arg.state_vector[k])
                /\ RowsLeft(arg, data, NLevels) # {}

\* a level that is selected, but leaves no OTU after four valid levels, is the target
C10_Witness ==
    /\ called = "_possibilities"
    /\ ~result.complete
    /\ result.target = "family"
    /\ Selected(arg.state_vector[5])

\* all seven levels selected and valid: no options
C10_WitnessComplete ==
    called = "_possibilities" /\ result.complete

\* the level (1..7) a target name belongs to
LevelOf(target) == CHOOSE k \in 1..NLevels : drop_id(hierarchy[k]) = target

\* C11: a result with target level k has as its clear list exactly the names
\* of level k and of every level after it, in hierarchy order, and no level
\* before k.
C11_ClearIsTargetAndLaterLevels ==
    (called = "_possibilities" /\ ~result.complete)
        => LET k == LevelOf(result.target)
           IN  /\ Len(result.clear) = NLevels - k + 1
               /\ \A i \in 1..Len(result.clear) :
                      result.clear[i] = drop_id(hierarchy[k + i - 1])
               /\ \A j \in 1..(k - 1) :
                      \A i \in 1..Len(result.clear) :
                          result.clear[i] # drop_id(hierarchy[j])

\* the class level cleared in a selection whose kingdom and phylum are valid
\* and whose later levels are still selected: class and the four levels
\* after it are reported
C11_Witness ==
    /\ called = "_possibilities"
    /\ ~result.complete
    /\ result.target = "class"
    /\ arg.state_vector[3].isNone
    /\ Selected(arg.state_vector[4])
    /\ result.clear = << "class", "order", "family", "genus", "species" >>

\* the ids of level k occurring in the OTUs that match the amplicon selector
\* and the selectors of the levels before k
ValuesLeft(tf, db, k) ==
    {o[hierarchy[k]] : o \in RowsLeft(tf, db, k - 1)} \ {None}

\* a list of (id, value) pairs in ascending order of value
SortedByValue(pairs) ==
    \A i, j \in 1..Len(pairs) : i < j => Rank(pairs[i][2]) < Rank(pairs[j][2])

\* the possibilities are the (id, value) pairs of exactly the ids in `ids`
PairsOf(pairs, ids) ==
    /\ {pairs[i][1] : i \in 1..Len(pairs)} = ids
    /\ \A i \in 1..Len(pairs) : pairs[i][2] = ValueNames[pairs[i][1]]

\* the hard-coded kingdom lookup was taken
KingdomShortcut(tf, target) == tf.amplicon_filter.isNone /\ target = "kingdom"

\* C12: the possibilities of a result with a target are (id, value) pairs
\* sorted by value ascending, and are exactly the values of the target level
\* occurring in the OTUs that match the amplicon selector and the selectors
\* of the levels before the target, on the general path and on the kingdom
\* shortcut alike.
C12_PossibilitiesSortedAndExact ==
    (called = "_possibilities" /\ ~result.complete)
        => /\ SortedByValue(result.possibilities)
           /\ PairsOf(result.possibilities,
                      ValuesLeft(arg, data, LevelOf(result.target)))

\* C12 holds of the results that did not take the kingdom shortcut
C12_HoldsOnGeneralPath ==
    (called = "_possibilities" /\ ~result.complete
        /\ ~KingdomShortcut(arg, result.target))
        => /\ SortedByValue(result.possibilities)
           /\ PairsOf(result.possibilities,
                      ValuesLeft(arg, data, LevelOf(result.target)))

\* on the kingdom shortcut the possibilities are the right pairs, in any order
C12_ShortcutPairsInAnyOrder ==
    (called = "_possibilities" /\ ~result.complete
        /\ KingdomShortcut(arg, result.target))
        => PairsOf(result.possibilities, ValuesLeft(arg, data, 1))

\* ------------------------------------------------------------------------
\* Cache keys of query parameters (SpecKey): two OTUQueryParams objects are
\* built independently, and the state key of each is taken.
\* ------------------------------------------------------------------------
EmptyStateVector == [i \in 1..NLevels |-> NoSel]

KeyTaxonomyFilters ==
    {TaxonomyFilter(NoSel, EmptyStateVector),
     TaxonomyFilter(Sel("is", 1), [EmptyStateVector EXCEPT ![1] = Sel("is", 1)])}

KeyStringInputs ==
    << << "x" >>, << "y" >>,
       << "x", ")", ">", ",", "<", "T", "e", "r", "m", "S", "t", "r", "i", "n", "g", "(", "d", "e", "p", "t", "h", ",", "i", "s", ",", "y" >> >>

InitKey ==
    /\ \E m1, m2 \in {"and", "or"}, t1, t2 \in KeyTaxonomyFilters :
            arg = << OTUQueryParams(ContextualFilter(m1, NoSel), t1),
                     OTUQueryParams(ContextualFilter(m2, NoSel), t2) >>
    /\ data = 1
    /\ called = "init"
    /\ result = << >>
    /\ CacheUnused

\* params.contextual_filter.add_term(ContextualFilterTermString(...)) on either object
KeyAddTerm ==
    \E n \in 1..2, i \in 1..Len(KeyStringInputs) :
        /\ Len(arg[n].contextual_filter.terms) < MaxTerms
        /\ arg' = [arg EXCEPT ![n].contextual_filter =
                        add_term(@, ContextualFilterTermString(
                                        "depth", "is", PyVal("str", KeyStringInputs[i])))]
        /\ called' = "add_term"
        /\ result' = << >>
        /\ UNCHANGED data
        /\ UNCHANGED cache_vars

\* the state key of both objects, under the import UUID `data`
KeyMake ==
    /\ called' = "make_cache_key"
    /\ result' = << state_key(data, arg[1]), state_key(data, arg[2]) >>
    /\ UNCHANGED << arg, data >>
    /\ UNCHANGED cache_vars

NextKey == KeyAddTerm \/ KeyMake

SpecKey == InitKey /\ [][NextKey]_vars

\* C7: filters of identical content have identical cache keys, and filters
\* that differ in any term (or in mode, environment, amplicon or a level
\* selector) have different keys.
C7_KeysInjectiveOnContent ==
    called = "make_cache_key" => (arg[1] = arg[2] <=> result[1] = result[2])

\* ------------------------------------------------------------------------
\* The cached operations (Spec): processes of the web application call the
\* cached operations of SampleQuery and TaxonomyOptions against the shared
\* cache, while the importer replaces the dataset and its UUID.
\* ------------------------------------------------------------------------
SampleOTU(sample_id, otu_id, count) ==
    [sample_id |-> sample_id, otu_id |-> otu_id, count |-> count]

\* the sample table of every import: one sample in each of two environments
SamplePool ==
    {Sample(1, 1, 6, << "1", "0", "c", "m" >>, 10, 1),
     Sample(2, 2, None, NoneStr, 20, None)}

\* the abundance facts an import draws its SampleOTU table from
FactPool == {SampleOTU(1, 1, 5), SampleOTU(2, 1, 3), SampleOTU(2, 2, 1)}

\* what ImportMetadata and the tables hold after the import numbered uuid
Imported(uuid, facts) ==
    [otus |-> OtuPool, samples |-> SamplePool, facts |-> facts, uuid |-> uuid]

\* the facts of the first import, and those a later import may bring
FirstFacts == FactPool

ImportFacts == {{}, {SampleOTU(1, 1, 5)}}

\* the query parameters of the requests: a kingdom and an environment selected
RequestParams ==
    {OTUQueryParams(ContextualFilter("and", Sel("is", 2)),
                    TaxonomyFilter(NoSel, [EmptyStateVector EXCEPT ![1] = Sel("is", 1)]))}

SampleQueryTopics == {"matching_samples", "matching_sample_headers", "has_matching_sample_otus"}

Topics == SampleQueryTopics \cup {"possibilities"}

PyDict(v) == [v |-> v, type |-> "dict"]

\* info.import_metadata().uuid, unless this process has looked it up before
metadata_uuid(memo_uuid, db) == IF memo_uuid = None THEN db.uuid ELSE memo_uuid

\* the key _q_all_cached makes: the query stands for str(compiled) and
\* compiled.params
q_all_cached_key(uuid, topic, q) ==
    make_cache_key(uuid, << repr_str("SampleQuery._q_all_cached"), repr_str(topic), q >>)

\* the key TaxonomyOptions.possibilities makes
possibilities_key(uuid, taxonomy_filter) ==
    make_cache_key(uuid, << repr_str("TaxonomyOptions.possibilities"),
                            repr_TaxonomyFilter(taxonomy_filter) >>)

call_key(uuid, topic, params, kingdom_id) ==
    IF topic = "possibilities"
    THEN possibilities_key(uuid, params.taxonomy_filter)
    ELSE q_all_cached_key(uuid, topic_name(topic, kingdom_id),
                          topic_query(topic, params, kingdom_id))

\* cache.get(key)
cache_get(c, key) == IF key \in DOMAIN c THEN c[key].value ELSE PyNone

\* cache.set(key, value, timeout); `computed_from` records the import whose
\* data the value was computed from
cache_set(c, key, value, computed_from) ==
    [k \in DOMAIN c \cup {key} |->
        IF k = key THEN [value |-> value, computed_from |-> computed_from] ELSE c[k]]

\* whether the operation takes what cache.get returned for a miss:
\* `if not result` in _q_all_cached, `if result is None` in possibilities
is_miss(topic, got) ==
    IF topic = "possibilities" THEN got.type = "None" ELSE Falsy(got)

\* what the operation computes on a miss: the possible results
computed(topic, params, kingdom_id, db) ==
    IF topic = "possibilities"
    THEN {PyDict(r) : r \in _possibilities(params.taxonomy_filter, db)}
    ELSE {mutate_result(topic, all(topic_query(topic, params, kingdom_id), db))}

Init ==
    /\ arg = << >>
    /\ called = "init"
    /\ result = << >>
    /\ data = Imported(1, FirstFacts)
    /\ CacheUnused

\* A new import: the tables are replaced, ImportMetadata gets a new UUID
Import ==
    /\ data.uuid <= MaxImports
    /\ \E facts \in ImportFacts : data' = Imported(data.uuid + 1, facts)
    /\ UNCHANGED << arg, called, result, cache_vars >>

\* Process p calls a cached operation: make_cache_key, then cache.get unless
\* forced; returns what it got unless that counts as a miss
Begin(p, topic, params, kingdom_id, force_cache) ==
    /\ pc[p] \in {"idle", "returned"}
    /\ call[p].n < MaxCalls
    /\ LET uuid == metadata_uuid(memo[p], data)
           key == call_key(uuid, topic, params, kingdom_id)
           got == IF force_cache THEN PyNone ELSE cache_get(cache, key)
           hit == ~is_miss(topic, got)
       IN  /\ memo' = [memo EXCEPT ![p] = uuid]
           /\ call' = [call EXCEPT ![p] =
                        [n |-> call[p].n + 1,
                         params |-> params, kingdom_id |-> kingdom_id, result |-> got,
                         topic |-> topic, key |-> key, computed_from |->
                            IF hit THEN cache[key].computed_from ELSE None,
                         hit |-> hit,
                         present |-> ~force_cache /\ key \in DOMAIN cache,
                         stored |-> IF key \in DOMAIN cache THEN cache[key].value ELSE PyNone,
                         began_under |-> data.uuid]]
           /\ pc' = [pc EXCEPT ![p] = IF hit THEN "returned" ELSE "miss"]
    /\ UNCHANGED << arg, data, called, result, cache >>

CallSampleQuery(p) ==
    \E topic \in SampleQueryTopics, params \in RequestParams :
        Begin(p, topic, params, IF topic = "has_matching_sample_otus" THEN 1 ELSE None, FALSE)

CallPossibilities(p) ==
    \E params \in RequestParams, force_cache \in BOOLEAN :
        Begin(p, "possibilities", params, None, force_cache)

\* q.all() and mutate_result, or _possibilities
Execute(p) ==
    /\ pc[p] = "miss"
    /\ \E r \in computed(call[p].topic, call[p].params, call[p].kingdom_id, data) :
            call' = [call EXCEPT ![p].result = r, ![p].computed_from = data.uuid]
    /\ pc' = [pc EXCEPT ![p] = "computed"]
    /\ UNCHANGED << arg, data, called, result, cache, memo >>

\* cache.set and return
Store(p) ==
    /\ pc[p] = "computed"
    /\ cache' = cache_set(cache, call[p].key, call[p].result, call[p].computed_from)
    /\ pc' = [pc EXCEPT ![p] = "returned"]
    /\ UNCHANGED << arg, data, called, result, memo, call >>

\* An entry of the cache reaches its timeout, or is evicted
Expire ==
    /\ \E key \in DOMAIN cache : cache' = [k \in DOMAIN cache \ {key} |-> cache[k]]
    /\ UNCHANGED << arg, data, called, result, memo, pc, call >>

Next ==
    \/ Import
    \/ \E p \in Procs : CallSampleQuery(p)
    \/ \E p \in Procs : CallPossibilities(p)
    \/ \E p \in Procs : Execute(p)
    \/ \E p \in Procs : Store(p)
    \/ Expire

Spec == Init /\ [][Next]_vars

\* C1: once a new import has replaced the UUID, no cached operation returns
\* from the cache a result computed from an earlier import: a call that is
\* answered from the cache gets a result computed from the import that was
\* current when the call began.
C1_NoResultOfPreviousImport ==
    \A p \in Procs :
        (pc[p] = "returned" /\ call[p].hit)
            => call[p].computed_from = call[p].began_under

\* (the reason given by C1) every key made after an import embeds its UUID
C1_KeyEmbedsCurrentUUID ==
    \A p \in Procs : pc[p] # "idle" => call[p].key[1] = call[p].began_under

\* process p is answered from the cache in this step
HitStep(p) == call'[p].n = call[p].n + 1 /\ call'[p].hit

\* C17: under any interleaving of requests and imports, a write under a key
\* that holds an entry stores the value the entry has, and a call answered
\* from the cache gets a value that its own computation over the dataset of
\* that moment can produce.
C17_CacheContentAddressed ==
    [][/\ \A key \in DOMAIN cache \cap DOMAIN cache' : cache'[key].value = cache[key].value
       /\ \A p \in Procs :
             HitStep(p) => call'[p].result \in computed(call'[p].topic, call'[p].params,
                                                       call'[p].kingdom_id, data)]_vars

\* a write under a key that holds an entry stores the value the entry has
C17_SameKeySameValue ==
    [][\A key \in DOMAIN cache \cap DOMAIN cache' : cache'[key].value = cache[key].value]_vars

\* C2: a call of a cacheable SampleQuery operation that finds an entry under
\* its key is a hit: it returns the stored result and does not execute the
\* query; only a call that finds no entry executes.
C2_PresentEntryIsHit ==
    \A p \in Procs :
        (pc[p] # "idle" /\ call[p].topic \in SampleQueryTopics /\ call[p].present)
            => (call[p].hit /\ call[p].result = call[p].stored)

\* ------------------------------------------------------------------------
\* The BIOM export (SpecBiom): one process exports again and again, pulling
\* the parts of the file in the order generate_biom_file chains them, while
\* the importer may replace the dataset.
\* ------------------------------------------------------------------------
\* the query parameters of the exports: no filter, a kingdom selected, an
\* environment selected
ExportParams ==
    {OTUQueryParams(ContextualFilter("and", NoSel), TaxonomyFilter(NoSel, EmptyStateVector)),
     OTUQueryParams(ContextualFilter("and", NoSel),
                    TaxonomyFilter(NoSel, [EmptyStateVector EXCEPT ![1] = Sel("is", 1)])),
     OTUQueryParams(ContextualFilter("and", Sel("is", 1)),
                    TaxonomyFilter(NoSel, EmptyStateVector))}

\* the process that exports
Exporter == 1

\* _q_all_cached as one step: the result, the cache it leaves, and the import
\* the result was computed from
_q_all_cached(c, uuid, topic, q, db) ==
    LET key == q_all_cached_key(uuid, topic, q)
        got == cache_get(c, key)
    IN  IF ~Falsy(got)
        THEN [result |-> got, cache |-> c, computed_from |-> c[key].computed_from]
        ELSE LET r == mutate_result(topic, all(q, db))
             IN  [result |-> r, cache |-> cache_set(c, key, r, db.uuid),
                  computed_from |-> db.uuid]

\* for idx, x in enumerate(x for x in ids if x not in index): index[x] = idx
RECURSIVE enumerate_new(_, _, _)
enumerate_new(ids, index, idx) ==
    IF ids = << >> THEN index
    ELSE IF Head(ids) \in DOMAIN index THEN enumerate_new(Tail(ids), index, idx)
    ELSE enumerate_new(Tail(ids),
                       [k \in DOMAIN index \cup {Head(ids)} |->
                            IF k = Head(ids) THEN idx ELSE index[k]],
                       idx + 1)

\* the entries a part yields: the keys of the index in the order of their idx
yielded(index) ==
    [i \in 1..Cardinality(DOMAIN index) |-> CHOOSE k \in DOMAIN index : index[k] = i - 1]

\* the shape as the file has it when it is put together without pulling the
\* rows and columns first
shape_before_rows(otu_to_row, sample_to_column) == << 0, 0 >>

\* (len(x) for x in (otu_to_row, sample_to_column)), evaluated when pulled
shape(otu_to_row, sample_to_column) ==
    << Cardinality(DOMAIN otu_to_row), Cardinality(DOMAIN sample_to_column) >>

\* abundance_tbl over the rows of matching_sample_otus in the order the
\* database returns them: the triples yielded, until a lookup raises
RECURSIVE abundance_tbl(_, _, _)
abundance_tbl(rows, otu_to_row, sample_to_column) ==
    IF rows = << >> THEN [data |-> << >>, error |-> ""]
    ELSE LET sampleotu == Head(rows).SampleOTU
         IN  IF \/ sampleotu.otu_id \notin DOMAIN otu_to_row
                \/ sampleotu.sample_id \notin DOMAIN sample_to_column
             THEN [data |-> << >>, error |-> "KeyError"]
             ELSE LET rest == abundance_tbl(Tail(rows), otu_to_row, sample_to_column)
                  IN  [data |-> << << otu_to_row[sampleotu.otu_id],
                                      sample_to_column[sampleotu.sample_id],
                                      sampleotu.count >> >> \o rest.data,
                       error |-> rest.error]

\* the state of generate_biom_file(query) before anything is pulled;
\* read_under and computed_from record the imports: those current when a
\* part was produced, and those the part's content was computed from
NewExport ==
    [data |-> << >>, computed_from |-> {}, otu_to_row |-> << >>, sample_to_column |-> << >>,
     shape |-> << >>, rows |-> << >>, error |-> "", columns |-> << >>, read_under |-> {}]

InitBiom ==
    /\ arg = << >>
    /\ called = "init"
    /\ result = << >>
    /\ \E facts \in SUBSET FactPool : data = Imported(1, facts)
    /\ CacheUnused

ImportBiom ==
    /\ data.uuid <= MaxImports
    /\ \E facts \in SUBSET FactPool : data' = Imported(data.uuid + 1, facts)
    /\ UNCHANGED << arg, called, result, cache_vars >>

\* with SampleQuery(params) as query: generate_biom_file(query); the header
\* is pulled
GenerateBiomFile ==
    /\ called \in {"init", "abundance_tbl"}
    /\ \E params \in ExportParams : arg' = params
    /\ called' = "generate_biom_file"
    /\ result' = NewExport
    /\ UNCHANGED << data, cache_vars >>

\* the rows are pulled
OtuRows ==
    /\ called = "generate_biom_file"
    /\ called' = "otu_rows"
    /\ LET otu_to_row == enumerate_new(all(matching_otus(arg, None), data).v, << >>, 0)
       IN  result' = [result EXCEPT !.otu_to_row = otu_to_row,
                                    !.rows = yielded(otu_to_row),
                                    !.read_under = @ \cup {data.uuid},
                                    !.computed_from = @ \cup {data.uuid}]
    /\ UNCHANGED << arg, data, cache_vars >>

\* the columns are pulled: matching_samples() twice, through the cache
SampleColumns ==
    /\ called = "otu_rows"
    /\ called' = "sample_columns"
    /\ LET uuid == metadata_uuid(memo[Exporter], data)
           q == matching_samples_query(arg)
           first == _q_all_cached(cache, uuid, "matching_samples", q, data)
           second == _q_all_cached(first.cache, uuid, "matching_samples", q, data)
           sample_to_column == enumerate_new(second.result.v, << >>, 0)
       IN  /\ memo' = [memo EXCEPT ![Exporter] = uuid]
           /\ cache' = second.cache
           /\ result' = [result EXCEPT !.sample_to_column = sample_to_column,
                                       !.columns = yielded(sample_to_column),
                                       !.read_under = @ \cup {data.uuid},
                                       !.computed_from = @ \cup {second.computed_from}]
    /\ UNCHANGED << arg, data, pc, call >>

\* the shape is pulled
Shape ==
    /\ called = "sample_columns"
    /\ called' = "shape"
    /\ result' = [result EXCEPT !.shape = shape(result.otu_to_row, result.sample_to_column)]
    /\ UNCHANGED << arg, data, cache_vars >>

\* the data is pulled, to its end or to the lookup that raises
AbundanceTbl ==
    /\ called = "shape"
    /\ called' = "abundance_tbl"
    /\ \E rows \in Orderings(Exec(matching_sample_otus("OTU,SampleOTU,SampleContext", arg, None),
                                  data)) :
          LET tbl == abundance_tbl(rows, result.otu_to_row, result.sample_to_column)
          IN  result' = [result EXCEPT !.data = tbl.data, !.error = tbl.error,
                                       !.read_under = @ \cup {data.uuid},
                                       !.computed_from = @ \cup {data.uuid}]
    /\ UNCHANGED << arg, data, cache_vars >>

NextBiom ==
    \/ ImportBiom
    \/ GenerateBiomFile
    \/ OtuRows
    \/ SampleColumns
    \/ Shape
    \/ AbundanceTbl

SpecBiom == InitBiom /\ [][NextBiom]_vars

\* the distinct rows (k = 1) or columns (k = 2) the triples of data refer to
Touched(k) == {result.data[i][k] : i \in 1..Len(result.data)}

C4_HoldsWithoutStaleColumns ==
    (called = "abundance_tbl" /\ Cardinality(result.read_under \cup result.computed_from) = 1)
        => /\ result.error = ""
           /\ \A i \in 1..Len(result.data) :
                /\ result.data[i][1] < result.shape[1]
                /\ result.data[i][2] < result.shape[2]

\* ------------------------------------------------------------------------
\* Database sessions and the saved archive (SpecSess)
\*
\* data is the world outside the process: the sessions opened so far, in the
\* order of opening, and the files under the export directory.  called is
\* the operation in progress or made last, pc its position, arg the export
\* being written and result what the operation returned.
\* ------------------------------------------------------------------------
MaxSessions == 3

\* the classes used as `with Class() as x:`
ContextManagers == {"TaxonomyOptions", "MetadataInfo", "OntologyInfo", "SampleQuery"}

\* the members of generate_biom_file's chain, and those that run queries
BiomStages == << "biom_header", "otu_rows", "sample_columns", "shape", "abundance_tbl" >>

QueryingStages == {"otu_rows", "sample_columns", "abundance_tbl"}

\* how an operation ended: by an exception, or by returning a value
Raised == [value |-> None, raised |-> TRUE]

Returned(value) == [value |-> value, raised |-> FALSE]

\* Session(): a session holding a connection
Session(owner) == [state |-> "open", owner |-> owner, late |-> FALSE]

\* session.close()
close(session) == [session EXCEPT !.state = "closed"]

\* session.query(...): a closed session takes a connection again
query_on(session) ==
    IF session.state = "open" THEN session
    ELSE [session EXCEPT !.state = "reopened", !.late = TRUE]

\* 'BiomExport-<timestamp>.biom.zip' as it is after open(filename, 'wb')
BiomZipFile(timestamp) == [name |-> timestamp, complete |-> FALSE, chunks |-> 0]

last(seq) == seq[Len(seq)]

with_last(seq, x) == [seq EXCEPT ![Len(seq)] = x]

the_file(files, name) == CHOOSE f \in files : f.name = name

InitSess ==
    /\ arg = None
    /\ data = [files |-> {}, sessions |-> << >>]
    /\ called = ""
    /\ result = Returned(None)
    /\ CacheUnused

\* `with Class() as x:` up to the first statement of the body
With(cls) ==
    /\ pc[1] = "idle"
    /\ Len(data.sessions) < MaxSessions
    /\ called' = cls
    /\ pc' = [pc EXCEPT ![1] = "body"]
    /\ data' = [data EXCEPT !.sessions = Append(@, Session(cls))]
    /\ result' = Returned(None)
    /\ UNCHANGED << arg, cache, memo, call >>

\* the body of the with statement ends, by return or by an exception, and
\* __exit__ closes the session
Exit(raised) ==
    /\ pc[1] = "body"
    /\ data' = [data EXCEPT !.sessions = with_last(@, close(last(@)))]
    /\ pc' = [pc EXCEPT ![1] = "idle"]
    /\ result' = IF raised THEN Raised ELSE Returned(None)
    /\ UNCHANGED << arg, called, cache, memo, call >>

\* a function that opens a session, runs one query and closes the session
\* in straight-line code: the close is skipped when the query raises
open_query_close(raised) ==
    IF raised THEN query_on(Session("")) ELSE close(query_on(Session("")))

\* OTUQueryParams.describe: metadata_section
MetadataSection(raised) ==
    /\ pc[1] = "idle"
    /\ Len(data.sessions) < MaxSessions
    /\ called' = "metadata_section"
    /\ data' = [data EXCEPT !.sessions =
                   Append(@, [open_query_close(raised) EXCEPT !.owner = "metadata_section"])]
    /\ result' = IF raised THEN Raised ELSE Returned(None)
    /\ UNCHANGED << arg, cache, memo, pc, call >>

GetSampleIds(raised) ==
    /\ pc[1] = "idle"
    /\ Len(data.sessions) < MaxSessions
    /\ called' = "get_sample_ids"
    /\ data' = [data EXCEPT !.sessions =
                   Append(@, [open_query_close(raised) EXCEPT !.owner = "get_sample_ids"])]
    /\ result' = IF raised THEN Raised ELSE Returned(None)
    /\ UNCHANGED << arg, cache, memo, pc, call >>

\* biom_zip_file_generator: the stream is handed to the archive inside the
\* with block and nothing is pulled from it; the session is closed on return
biom_zip_file_generator(sessions) ==
    Append(sessions, close(Session("biom_zip_file_generator")))

\* save_biom_zip_file up to the first turn of `for data in zf`; the timestamp
\* is the number of the export's session
SaveBiomZipFile ==
    /\ pc[1] = "idle"
    /\ Len(data.sessions) < MaxSessions
    /\ called' = "save_biom_zip_file"
    /\ LET timestamp == Len(data.sessions) + 1
       IN  /\ arg' = [timestamp |-> timestamp, pulled |-> 0]
           /\ data' = [files |-> data.files \cup {BiomZipFile(timestamp)},
                       sessions |-> biom_zip_file_generator(data.sessions)]
    /\ pc' = [pc EXCEPT ![1] = "writing"]
    /\ result' = Returned(None)
    /\ UNCHANGED << cache, memo, call >>

\* one turn of `for data in zf: f.write(data)`: the archive pulls the next
\* member of the chain, whose queries run on the session of SampleQuery, and
\* the chunk is written; an exception of the query or of the write leaves
\* the with block of the file, which closes it, and save_biom_zip_file
WriteChunk(query_raised, write_raised) ==
    /\ pc[1] = "writing"
    /\ arg.pulled < Len(BiomStages)
    /\ LET stage == BiomStages[arg.pulled + 1]
           sessions == IF stage \in QueryingStages
                       THEN with_last(data.sessions, query_on(last(data.sessions)))
                       ELSE data.sessions
           raised == (stage \in QueryingStages /\ query_raised) \/ write_raised
           file == the_file(data.files, arg.timestamp)
       IN  IF raised
           THEN /\ data' = [data EXCEPT !.sessions = sessions]
                /\ pc' = [pc EXCEPT ![1] = "idle"]
                /\ result' = Raised
                /\ arg' = arg
           ELSE /\ data' = [files |-> (data.files \ {file})
                                          \cup {[file EXCEPT !.chunks = @ + 1]},
                            sessions |-> sessions]
                /\ arg' = [arg EXCEPT !.pulled = @ + 1]
                /\ UNCHANGED << pc, result >>
    /\ UNCHANGED << called, cache, memo, call >>

\* the stream has ended: the archive writes its directory, the file is
\* closed and its name returned
ReturnFilename ==
    /\ pc[1] = "writing"
    /\ arg.pulled = Len(BiomStages)
    /\ LET file == the_file(data.files, arg.timestamp)
       IN  data' = [data EXCEPT !.files =
                       (@ \ {file}) \cup {[file EXCEPT !.complete = TRUE]}]
    /\ pc' = [pc EXCEPT ![1] = "idle"]
    /\ result' = Returned(arg.timestamp)
    /\ UNCHANGED << arg, called, cache, memo, call >>

NextSess ==
    \/ \E cls \in ContextManagers : With(cls)
    \/ \E raised \in BOOLEAN : Exit(raised)
    \/ \E raised \in BOOLEAN : MetadataSection(raised)
    \/ \E raised \in BOOLEAN : GetSampleIds(raised)
    \/ SaveBiomZipFile
    \/ \E query_raised, write_raised \in BOOLEAN : WriteChunk(query_raised, write_raised)
    \/ ReturnFilename

SpecSess == InitSess /\ [][NextSess]_vars

\* C13: every session opened is released when its operation is over, by
\* return or by an exception, and no query runs on a session after the
\* session was released.
C13_SessionsReleasedNoQueryAfter ==
    /\ \A i \in 1..Len(data.sessions) : ~data.sessions[i].late
    /\ pc[1] = "idle" => \A i \in 1..Len(data.sessions) : data.sessions[i].state = "closed"

\* the sessions of the context managers are released on every exit path
C13_ContextManagersRelease ==
    pc[1] = "idle" =>
        \A i \in 1..Len(data.sessions) :
            data.sessions[i].owner \in ContextManagers
                => data.sessions[i].state = "closed" /\ ~data.sessions[i].late

\* C14: when save_biom_zip_file fails part-way, no file is left under the
\* final name of the export.
C14_NoPartialArchiveUnderFinalName ==
    (called = "save_biom_zip_file" /\ result = Raised)
        => \A f \in data.files : f.name # arg.timestamp

\* every file left by an export that returned its name is complete, and a
\* failure returns no name
C14_ReturnedArchiveIsComplete ==
    (called = "save_biom_zip_file" /\ pc[1] = "idle")
        => \/ result = Raised
           \/ /\ result = Returned(arg.timestamp)
              /\ the_file(data.files, result.value).complete
              /\ the_file(data.files, result.value).chunks = Len(BiomStages)

\* ------------------------------------------------------------------------
\* The samples matching query parameters (SpecMatch)
\*
\* arg is the OTUQueryParams of one SampleQuery, data the imported dataset;
\* the operations are called by process 1 and go through the cache.
\* ------------------------------------------------------------------------
\* taxonomy filters that select among the first three levels
MatchTaxonomyFilters ==
    {TaxonomyFilter(a, sv) :
        a \in Selectors,
        sv \in {v \in StateVectors : \A i \in 4..NLevels : v[i].isNone}}

MatchContextualFilters ==
    {ContextualFilter("and", NoSel), ContextualFilter("and", Sel("is", 2))}

InitMatch ==
    /\ \E cf \in MatchContextualFilters, tf \in MatchTaxonomyFilters :
          arg = OTUQueryParams(cf, tf)
    /\ \E facts \in SUBSET FactPool : data = Imported(1, facts)
    /\ called = "init"
    /\ result = PyNone
    /\ CacheUnused

\* a call of _q_all_cached by process 1
QAllCached(topic, q) ==
    LET uuid == metadata_uuid(memo[1], data)
        r == _q_all_cached(cache, uuid, topic, q, data)
    IN  /\ called' = topic
        /\ result' = r.result
        /\ cache' = r.cache
        /\ memo' = [memo EXCEPT ![1] = uuid]
        /\ UNCHANGED << arg, data, pc, call >>

MatchingSamples == QAllCached("matching_samples", matching_samples_query(arg))

MatchingSampleHeaders ==
    QAllCached("matching_sample_headers", matching_sample_headers_query(arg))

IsEmpty ==
    /\ called' = "is_empty"
    /\ result' = PyBool(TaxonomyFilter_is_empty(arg.taxonomy_filter))
    /\ UNCHANGED << arg, data >>
    /\ UNCHANGED cache_vars

NextMatch == MatchingSamples \/ MatchingSampleHeaders \/ IsEmpty

SpecMatch == InitMatch /\ [][NextMatch]_vars

\* the taxonomy filter has an amplicon selector or a selected level
TaxonomySelected(tf) ==
    Selected(tf.amplicon_filter) \/ \E k \in 1..NLevels : Selected(tf.state_vector[k])

\* the samples that satisfy the contextual filter
ContextualSamples(params, db) ==
    {s \in db.samples : EnvironmentSatisfied(params.contextual_filter, s)}

\* the samples with an abundance fact whose OTU satisfies the taxonomy filter
TaxonomySamples(params, db) ==
    {s \in db.samples :
        \E f \in db.facts :
            /\ f.sample_id = s.id
            /\ \E o \in RowsLeft(params.taxonomy_filter, db, NLevels) : o.id = f.otu_id}

IdsOf(samples) == PyList(Ascending({s.id : s \in samples}))

\* C15: when the taxonomy filter has an amplicon selector or a selected
\* level, matching_samples and matching_sample_headers return exactly the
\* samples that satisfy the contextual filter and have an abundance fact
\* whose OTU satisfies the taxonomy filter; and is_empty() is true exactly
\* when the taxonomy filter has neither.
C15_TaxonomyNarrowsMatchingSamples ==
    /\ (called \in {"matching_samples", "matching_sample_headers"}
            /\ TaxonomySelected(arg.taxonomy_filter))
        => result = IdsOf(ContextualSamples(arg, data) \cap TaxonomySamples(arg, data))
    /\ called = "is_empty" => (result.v <=> ~TaxonomySelected(arg.taxonomy_filter))

\* C15 holds of the filters with an amplicon or a kingdom selected
C15_HoldsWithAmpliconOrKingdom ==
    (called \in {"matching_samples", "matching_sample_headers"}
        /\ (Selected(arg.taxonomy_filter.amplicon_filter)
              \/ Selected(arg.taxonomy_filter.state_vector[1])))
        => result = IdsOf(ContextualSamples(arg, data) \cap TaxonomySamples(arg, data))

\* with neither amplicon nor kingdom given, the selectors of the lower levels
\* are left out: every sample satisfying the contextual filter is returned
C15_LowerLevelsAloneAreIgnored ==
    (called \in {"matching_samples", "matching_sample_headers"}
        /\ TaxonomyFilter_is_empty(arg.taxonomy_filter))
        => result = IdsOf(ContextualSamples(arg, data))

\* ------------------------------------------------------------------------
\* The fragments of generate_biom_file, pulled one at a time (SpecChain)
\*
\* arg is the OTUQueryParams of the export, data the imported dataset and
\* result the state of the generators of generate_biom_file(query): what has
\* been yielded (out), where the chain, wrap, interpose and the generator of
\* the current part stand, and the two index dicts.  log records, with the
\* dicts as they are at that moment, when a part runs its query, evaluates a
\* len, looks up a triple or is exhausted.
\* ------------------------------------------------------------------------
\* a fragment: the header, or the opening, an element, a separator or the
\* closing of a part
Frag(kind, stage, v) == [v |-> v, kind |-> kind, stage |-> stage]

NoFrag == Frag("", "", << >>)

\* the arguments of itertools.chain, by the name of their array
ChainStages == << "header", "rows", "columns", "shape", "data" >>

NewStream ==
    [idx |-> 0, otu_to_row |-> << >>, sample_to_column |-> << >>, error |-> "", rest |-> << >>,
     out |-> << >>, member |-> 1, wrap |-> "pre",
     interpose |-> "try", held |-> NoFrag, started |-> FALSE, log |-> << >>]

\* what next() of a generator does: StopIteration, an exception, or an item
Stop(st) == [raised |-> FALSE, st |-> st, stop |-> TRUE, item |-> NoFrag]

Raise(st) == [raised |-> TRUE, st |-> st, stop |-> FALSE, item |-> NoFrag]

Yield(item, st) == [raised |-> FALSE, st |-> st, stop |-> FALSE, item |-> item]

Logged(st, event) ==
    [st EXCEPT !.log = Append(@, [otu_to_row |-> st.otu_to_row, sample_to_column |-> st.sample_to_column,
                                  stage |-> ChainStages[st.member],
                                  event |-> event])]

\* index[k] = v
put(index, k, v) ==
    [x \in DOMAIN index \cup {k} |-> IF x = k THEN v ELSE index[x]]

\* (s for s in samples if s.id not in sample_to_column): what is left of it
\* once the elements to be skipped are passed
RECURSIVE not_in(_, _)
not_in(ids, index) ==
    IF ids = << >> THEN << >>
    ELSE IF Head(ids) \in DOMAIN index THEN not_in(Tail(ids), index)
    ELSE ids

\* the code of a part's generator up to its loop: the query is run.  q holds
\* what the queries return: the OTUs, the samples, the abundance rows
started_generator(st, q) ==
    LET stage == ChainStages[st.member]
    IN  IF stage = "shape"
        THEN [st EXCEPT !.started = TRUE, !.rest = << 1, 2 >>, !.idx = 0]
        ELSE Logged([st EXCEPT !.started = TRUE, !.idx = 0,
                               !.rest = CASE stage = "rows" -> q.otus
                                          [] stage = "columns" -> q.samples
                                          [] stage = "data" -> q.sample_otus],
                    "query")

\* the body of the loop of a part's generator for the element x: s is the
\* generator before it, t the generator with x taken
loop_body(stage, s, t, x) ==
    CASE stage = "rows" ->
            Yield(Frag("item", stage, << x >>), [t EXCEPT !.otu_to_row = put(@, x, s.idx)])
      [] stage = "columns" ->
            Yield(Frag("item", stage, << x >>), [t EXCEPT !.sample_to_column = put(@, x, s.idx)])
      [] stage = "shape" ->
            Yield(Frag("item", stage,
                       << Cardinality(DOMAIN (IF x = 1 THEN s.otu_to_row
                                              ELSE s.sample_to_column)) >>),
                  Logged(t, "len"))
      [] stage = "data" ->
            IF \/ x.SampleOTU.otu_id \notin DOMAIN s.otu_to_row
               \/ x.SampleOTU.sample_id \notin DOMAIN s.sample_to_column
            THEN Raise(Logged(t, "lookup"))
            ELSE Yield(Frag("item", stage,
                            << s.otu_to_row[x.SampleOTU.otu_id],
                               s.sample_to_column[x.SampleOTU.sample_id],
                               x.SampleOTU.count >>),
                       Logged(t, "lookup"))

\* the loop of a started generator s: the next element, or the end
loop_next(stage, s) ==
    IF s.rest = << >> THEN Stop(Logged(s, "exhausted"))
    ELSE loop_body(stage, s, [s EXCEPT !.rest = Tail(@), !.idx = @ + 1], Head(s.rest))

\* the elements the generator expression of sample_columns passes over
skipped(stage, s) ==
    IF stage = "columns" THEN [s EXCEPT !.rest = not_in(@, s.sample_to_column)] ELSE s

\* next() of otu_rows, sample_columns, the shape generator or abundance_tbl
stage_next(st, q) ==
    loop_next(ChainStages[st.member],
              skipped(ChainStages[st.member],
                      IF st.started THEN st ELSE started_generator(st, q)))

\* interpose goes on after next(it) gave r: the separator is yielded and the
\* element kept for the next turn
yield_sep(stage, r) ==
    IF r.stop \/ r.raised THEN r
    ELSE Yield(Frag("sep", stage, << >>), [r.st EXCEPT !.interpose = "held", !.held = r.item])

\* interpose goes on after its first next(it) gave r
yield_first(r) ==
    IF r.stop \/ r.raised THEN r ELSE Yield(r.item, [r.st EXCEPT !.interpose = "for"])

\* interpose with the separator before every element, the first included
interpose_sep_first(st, q) ==
    IF st.interpose = "held"
    THEN Yield(st.held, [st EXCEPT !.interpose = "for", !.held = NoFrag])
    ELSE yield_sep(ChainStages[st.member], stage_next(st, q))

\* next() of interpose(it, sep): the first element, then for every further
\* element the separator and the element
interpose(st, q) ==
    IF st.interpose = "held"
    THEN Yield(st.held, [st EXCEPT !.interpose = "for", !.held = NoFrag])
    ELSE IF st.interpose = "try" THEN yield_first(stage_next(st, q))
    ELSE yield_sep(ChainStages[st.member], stage_next(st, q))

\* wrap goes on after interpose gave r: its end is followed by post
yield_post(stage, r) ==
    IF r.stop THEN Yield(Frag("post", stage, << >>), [r.st EXCEPT !.wrap = "done"]) ELSE r

\* next() of wrap(pre, it, post)
wrap(st, q) ==
    CASE st.wrap = "pre" ->
            Yield(Frag("pre", ChainStages[st.member], << >>), [st EXCEPT !.wrap = "items"])
      [] st.wrap = "items" -> yield_post(ChainStages[st.member], interpose(st, q))
      [] st.wrap = "done" -> Stop(st)

\* next() of biom_header()
biom_header(st) ==
    IF st.started THEN Stop(st)
    ELSE Yield(Frag("header", "header", << >>), [st EXCEPT !.started = TRUE])

\* the chain with its next argument, not yet started
next_member(st) ==
    [st EXCEPT !.member = @ + 1, !.wrap = "pre", !.interpose = "try", !.held = NoFrag,
               !.started = FALSE, !.rest = << >>, !.idx = 0]

\* next() of itertools.chain(...): an exhausted argument is left for the next
RECURSIVE chain(_, _)
chain_on(r, q) == IF r.stop THEN chain(next_member(r.st), q) ELSE r

chain(st, q) ==
    IF st.member > Len(ChainStages) THEN Stop(st)
    ELSE chain_on(IF st.member = 1 THEN biom_header(st) ELSE wrap(st, q), q)

\* the stream after next() gave r
pulled(r) ==
    IF r.raised THEN [r.st EXCEPT !.error = "KeyError", !.member = Len(ChainStages) + 1]
    ELSE IF r.stop THEN r.st
    ELSE [r.st EXCEPT !.out = Append(@, r.item)]

\* sample_columns ran its queries between the streams before and after
columns_started(before, after) ==
    \E i \in (Len(before.log) + 1)..Len(after.log) :
        after.log[i].event = "query" /\ after.log[i].stage = "columns"

InitChain ==
    /\ arg \in ExportParams
    /\ \E facts \in SUBSET FactPool : data = Imported(1, facts)
    /\ called = "generate_biom_file"
    /\ result = NewStream
    /\ CacheUnused

\* generate_biom_file(query) of a new SampleQuery(params), once the stream
\* before it has ended
GenerateNext ==
    /\ result.member > Len(ChainStages)
    /\ \E params \in ExportParams : arg' = params
    /\ called' = "generate_biom_file"
    /\ result' = NewStream
    /\ UNCHANGED << data, cache_vars >>

\* the consumer pulls a fragment; the queries are run by the part that is
\* started by this pull, matching_samples() twice through the cache
PullFragment ==
    /\ result.member <= Len(ChainStages)
    /\ called' = "next"
    /\ LET uuid == metadata_uuid(memo[Exporter], data)
           first == _q_all_cached(cache, uuid, "matching_samples",
                                  matching_samples_query(arg), data)
           second == _q_all_cached(first.cache, uuid, "matching_samples",
                                   matching_samples_query(arg), data)
       IN  /\ \E rows \in Orderings(Exec(matching_sample_otus("OTU,SampleOTU,SampleContext",
                                                             arg, None), data)) :
                 result' = pulled(chain(result, [otus |-> all(matching_otus(arg, None), data).v,
                                                 samples |-> second.result.v,
                                                 sample_otus |-> rows]))
           /\ cache' = IF columns_started(result, result') THEN second.cache ELSE cache
           /\ memo' = IF columns_started(result, result')
                      THEN [memo EXCEPT ![Exporter] = uuid]
                      ELSE memo
    /\ UNCHANGED << arg, data, pc, call >>

NextChain == GenerateNext \/ PullFragment

SpecChain == InitChain /\ [][NextChain]_vars

\* the elements every part has when the export is of arg over data, the
\* abundance rows taken in the order d
ExpectedItems(d) ==
    LET otus == all(matching_otus(arg, None), data).v
        samples == all(matching_samples_query(arg), data).v
        row == enumerate_new(otus, << >>, 0)
        column == enumerate_new(samples, << >>, 0)
    IN  [data |-> [i \in 1..Len(d) |-> << row[d[i].SampleOTU.otu_id],
                                         column[d[i].SampleOTU.sample_id],
                                         d[i].SampleOTU.count >>],
         otu_to_row |-> row,
         sample_to_column |-> column,
         shape |-> << << Len(otus) >>, << Len(samples) >> >>,
         rows |-> [i \in 1..Len(otus) |-> << otus[i] >>], columns |-> [i \in 1..Len(samples) |-> << samples[i] >>]]

\* an array: opening, the elements with a separator between consecutive
\* elements only, closing
Array(stage, items) ==
    << Frag("pre", stage, << >>) >>
        \o [i \in 1..(IF items = << >> THEN 0 ELSE 2 * Len(items) - 1) |->
               IF i % 2 = 1 THEN Frag("item", stage, items[(i + 1) \div 2])
               ELSE Frag("sep", stage, << >>)]
        \o << Frag("post", stage, << >>) >>

WholeFile(items) ==
    << Frag("header", "header", << >>) >>
        \o Array("rows", items.rows) \o Array("columns", items.columns)
        \o Array("shape", items.shape) \o Array("data", items.data)

IsPrefix(a, b) == Len(a) <= Len(b) /\ \A i \in 1..Len(a) : a[i] = b[i]

AbundanceRows == Exec(matching_sample_otus("OTU,SampleOTU,SampleContext", arg, None), data)

StageRank(stage) == CHOOSE k \in 1..Len(ChainStages) : ChainStages[k] = stage

Exhausted(stage, i) ==
    \E j \in 1..(i - 1) : result.log[j].event = "exhausted" /\ result.log[j].stage = stage

C16_WitnessEmptyStage ==
    /\ called = "next" /\ result.member > Len(ChainStages) /\ AbundanceRows = {}
    /\ result.out[Len(result.out) - 1] = Frag("pre", "data", << >>)
    /\ result.out[Len(result.out)] = Frag("post", "data", << >>)

====
